---- MODULE Spec2Model ----
(***************************************************************************)
(* The Watch effect of the reactive core (class Watch extends ReactiveNode) *)
(* together with the part of the reactive graph it relies on: producers    *)
(* with value versions, the consumer's dependency edges and the global     *)
(* active-consumer register.                                               *)
(*                                                                         *)
(* User code (the watch function, a registered cleanup function, the       *)
(* caller at top level) is the environment: it reads and writes producers, *)
(* registers cleanups, calls notify(), run() and cleanup(), returns or     *)
(* throws.  A call in progress is a frame of `stack`; the user function    *)
(* that is executing is the one of the top frame.  The schedule callback   *)
(* of this specification defers run(): it only records that it was called. *)
(*                                                                         *)
(* The module also holds ComponentNgElementStrategy (specification         *)
(* SpecElement): the custom element's strategy that creates its component  *)
(* on connect, destroys it a delay after disconnect, caches input values   *)
(* set before the component exists and schedules change detection.         *)
(*                                                                         *)
(* RouterOutlet (specification SpecOutlet) is the router's placeholder     *)
(* directive: the router activates it with a route, deactivates it, and    *)
(* detaches and re-attaches its component to reuse it.                     *)
(*                                                                         *)
(* RouterInitializer (specification SpecInitializer) ties the router's     *)
(* initial navigation to the application bootstrap: appInitializer()       *)
(* returns the promise the bootstrap waits for and bootstrapListener()     *)
(* runs for every bootstrapped component.                                  *)
(*                                                                         *)
(* DefaultValueAccessor (specification SpecAccessor) forwards the value of *)
(* a text input to onChange, holding it back during an IME composition     *)
(* when the composition buffer mode is on.                                 *)
(***************************************************************************)
EXTENDS Integers, Sequences, FiniteSets, TLC

\* ------------------------------------------------------------------ bounds
\* input and composition events the input element fires
MaxAccessorEvents == 3
\* navigations the router makes
MaxNavigations == 2
\* bootstrapListener() calls (components the application bootstraps)
MaxBootstraps == 2
\* highest tracking version a watch reaches (executed runs per watch)
MaxTracking == 2
\* highest value version a producer reaches (writes per producer)
MaxVersion == 1
\* notify() calls counted per watch between two run() calls
MaxNotify == 2
\* cleanup functions registered in one behaviour
MaxCleanups == 1
\* cleanup() calls that invoke one pending cleanup function
MaxCleanupCalls == 1

\* components one strategy creates in one behaviour
MaxComponents == 2
\* destroy timers one strategy schedules in one behaviour
MaxTimers == 2
\* setInputValue() calls in one behaviour
MaxSets == 3
\* components the outlet creates in one behaviour
MaxOutletComponents == 2
\* events the outlet emits in one behaviour
MaxEvents == 5

Watches == {"w1", "w2"}
Producers == {"A", "B"}
\* w2 is a plain watch: its function reads and writes no producer, registers
\* no cleanup and calls only run(), and user code calls neither notify() nor
\* cleanup() on it; it is there to be run inside the function of w1 and to
\* run w1 inside its own
Plain == {"w2"}

\* activeConsumer = null
NoConsumer == "null"
\* const NOOP_CLEANUP_FN
NOOP_CLEANUP_FN == 0
\* a WatchCleanupFn the watch function registered
UserCleanupFn == 1

VARIABLES
  \* ---- Watch fields
  dirty,            \* Watch.dirty
  trackingVersion,  \* ReactiveNode.trackingVersion of the watch
  cleanupFn,        \* Watch.cleanupFn
  \* ---- reactive graph
  activeConsumer,   \* the global active-consumer register
  valueVersion,     \* each producer's version
  producers,        \* each watch's dependency edges, in the order first read
  \* ---- calls in progress, innermost last
  stack,
  \* ---- observations
  scheduleCalls,    \* schedule(w) invocations since w's latest run() began
  notifyCalls,      \* w.notify() invocations since w's latest run() began
  watchCalls,       \* invocations of w's watch function
  cleanupCalls,     \* invocations of the cleanup function pending on w
  registered,       \* number of cleanup functions registered so far
  outcome,          \* how w's latest run() call went
  written,          \* the producers written since w's latest run() began
                    \* (kept for the watches that read producers)
  readNow,          \* producers read under w since its latest executed run began
  readPrev,         \* producers read under w in the executed run before that
  changedSinceRead, \* producers of readNow[w] written after w read them last
  \* ---- ComponentNgElementStrategy fields
  componentRef,               \* the component created on connect, or null
  viewChangeDetectorRef,      \* the component view's ChangeDetectorRef, or null
  inputChanges,               \* the SimpleChange recorded per input
  hasInputChanges,
  implementsOnChanges,
  scheduledChangeDetectionFn, \* a change detection is scheduled
  scheduledDestroyFn,         \* the cancel function of a destroy timer, or null
  initialInputValues,         \* the Map of values set before the component exists
  unchangedInputs,            \* the Set of inputs that have not changed yet
  \* ---- the strategy's environment
  instance,                   \* componentRef.instance: the component's input properties
  timers,                     \* destroy timers scheduled, neither fired nor cancelled
  renderCallbacks,            \* change detection callbacks waiting for the next render
  \* ---- observations
  created,                    \* components created so far
  destroyed,                  \* components destroyed so far
  timersScheduled,            \* destroy timers scheduled so far
  setCalls,                   \* setInputValue() calls so far
  detectChangesRuns,          \* runs of the component's change detection so far
  lastNgOnChanges,            \* the changes the latest ngOnChanges() call received
  \* ---- RouterOutlet fields
  activated,                  \* RouterOutlet.activated: the ComponentRef, or null
  activatedRouteField,        \* RouterOutlet._activatedRoute, or null
  \* ---- the outlet's environment
  location,                   \* the host views in the ViewContainerRef, in order
  events,                     \* what the four EventEmitters emitted, in order
  registeredOutlet,           \* parentContexts knows the outlet
  detachedRefs,               \* ComponentRefs detach() returned, held by the caller
  \* ---- observations
  outletCreated,              \* components the outlet created so far
  outletDestroyed,            \* components destroyed so far
  result,                     \* what the latest call returned or threw
  \* ---- RouterInitializer fields
  initNavigation,             \* RouterInitializer.initNavigation
  resultOfPreactivationDone,  \* the Subject: values emitted, completed or not
  \* ---- the initializer's environment
  opts,                       \* ExtraOptions.initialNavigation, once read
  appInitializerPromise,      \* the promise appInitializer() returned
  afterPreactivationHook,     \* router.hooks.afterPreactivation: whose function
  navs,                       \* the router's navigations and how far each got
  rootBootstrapped,           \* the root component was created and bootstrapped
  routerSetUp,                \* the set-up calls made on router, preloader, scroller
  \* ---- observations
  hookResults,                \* what each call of the installed hook returned
  bootstrapListenerCalls,     \* bootstrapListener() calls so far
  \* ---- DefaultValueAccessor fields
  composing,                  \* DefaultValueAccessor._composing
  compositionMode,            \* DefaultValueAccessor._compositionMode, null until constructed
  \* ---- the accessor's environment and observations
  elementValue,               \* the value property of the input element
  domEvents,                  \* the input and composition events so far, in order
  onChangeCalls               \* the values onChange was called with, in order

watchModelVars == <<dirty, trackingVersion, cleanupFn, activeConsumer, valueVersion,
                    producers, stack, scheduleCalls, notifyCalls, watchCalls,
                    cleanupCalls, registered, outcome, written, readNow, readPrev,
                    changedSinceRead>>

elementVars == <<componentRef, viewChangeDetectorRef, inputChanges, hasInputChanges,
                 implementsOnChanges, scheduledChangeDetectionFn, scheduledDestroyFn,
                 initialInputValues, unchangedInputs, instance, timers,
                 renderCallbacks, created, destroyed, timersScheduled, setCalls,
                 detectChangesRuns, lastNgOnChanges>>

outletVars == <<activated, activatedRouteField, location, events, registeredOutlet,
                detachedRefs, outletCreated, outletDestroyed, result>>

initializerVars == <<initNavigation, resultOfPreactivationDone, opts,
                     appInitializerPromise, afterPreactivationHook, navs,
                     rootBootstrapped, routerSetUp, hookResults, bootstrapListenerCalls>>

accessorVars == <<composing, compositionMode, elementValue, domEvents, onChangeCalls>>

vars == <<watchModelVars, elementVars, outletVars, initializerVars, accessorVars>>

\* what the Watch actions leave alone, what the strategy's actions do, what
\* the outlet's actions do, what the initializer's actions do and what the
\* accessor's actions do
notWatchVars == <<elementVars, outletVars, initializerVars, accessorVars>>
notElementVars == <<watchModelVars, outletVars, initializerVars, accessorVars>>
notOutletVars == <<watchModelVars, elementVars, initializerVars, accessorVars>>
notInitializerVars == <<watchModelVars, elementVars, outletVars, accessorVars>>
notAccessorVars == <<watchModelVars, elementVars, outletVars, initializerVars>>

watchVars == <<dirty, trackingVersion, cleanupFn>>
graphVars == <<activeConsumer, valueVersion, producers>>
notifyObs == <<scheduleCalls, notifyCalls>>
readObs == <<readNow, readPrev, changedSinceRead>>

\* ------------------------------------------------------------------ frames
Top == stack[Len(stack)]
Pop == SubSeq(stack, 1, Len(stack) - 1)
OnStack(w) == \E i \in DOMAIN stack : stack[i].w = w

\* the stack s once a run() called by its top function ended as `how`
Returned(s, how) ==
  IF s = <<>> \/ how \notin {"cleanupThrew", "watchThrew"}
  THEN s
  ELSE [s EXCEPT ![Len(s)] = [@ EXCEPT !.innerThrew = TRUE]]

\* user code is executing at top level or inside a watch function
InUserCode == IF stack = <<>> THEN TRUE ELSE Top.pc = "watch"
\* the same, except inside the function of a plain watch, which only calls run()
InBusyCode == IF stack = <<>> THEN TRUE ELSE Top.pc = "watch" /\ Top.w \notin Plain
\* user code may start a call that stays in progress
CanCall == InUserCode

\* ------------------------------------------------------- the reactive graph
\* setActiveConsumer(consumer): the register after the swap; the caller keeps
\* the previous occupant
setActiveConsumer(consumer) == consumer

\* the edge a read of producer p under consumer c records
NewEdge(c, p) ==
  [producerNode |-> p, seenValueVersion |-> valueVersion[p],
   atTrackingVersion |-> trackingVersion[c]]

EdgeIndex(c, p) == {i \in DOMAIN producers[c] : producers[c][i].producerNode = p}

\* the producer read-time hook: the edges of consumer c after it read p
producerAccessed(c, p) ==
  IF EdgeIndex(c, p) = {}
  THEN Append(producers[c], NewEdge(c, p))
  ELSE [producers[c] EXCEPT ![CHOOSE i \in EdgeIndex(c, p) : TRUE] = NewEdge(c, p)]

\* an edge belongs to the consumer's current tracking version; an edge
\* recorded by an earlier tracked execution is stale
IsLive(w, e) == e.atTrackingVersion = trackingVersion[w]

\* the edges of w that survive its move to tracking version tv
EdgesAt(w, tv) == SelectSeq(producers[w], LAMBDA e : e.atTrackingVersion = tv)

\* the consumers a change of producer p notifies
LiveConsumers(p) ==
  {w \in Watches : \E i \in DOMAIN producers[w] :
      producers[w][i].producerNode = p /\ IsLive(w, producers[w][i])}

\* consumer revalidation: some live edge saw another version than the
\* producer has now
consumerPollProducersForChange(w) ==
  \E i \in DOMAIN producers[w] :
     /\ IsLive(w, producers[w][i])
     /\ valueVersion[producers[w][i].producerNode] # producers[w][i].seenValueVersion

\* ------------------------------------------------------------------ Watch
\* a watch constructed dirty
InitialDirty_True == TRUE

\* private dirty = false
InitialDirty == FALSE

\* notify() without the dirty check: schedules on every call
NotifySchedules_Always(w) == TRUE

\* notify() that never schedules
NotifySchedules_Never(w) == FALSE

\* notify(): if (!this.dirty) this.schedule(this)
NotifySchedules(w) == ~dirty[w]

\* notify() that forgets to set the flag
DirtyAfterNotify_Keep(w) == dirty[w]

\* notify(): this.dirty = true
DirtyAfterNotify(w) == TRUE

\* notify() on every watch of S; the deferring schedule callback is counted
NotifyAll(S) ==
  /\ dirty' = [w \in Watches |-> IF w \in S THEN DirtyAfterNotify(w) ELSE dirty[w]]
  /\ scheduleCalls' = [w \in Watches |->
        IF w \in S /\ NotifySchedules(w) THEN scheduleCalls[w] + 1 ELSE scheduleCalls[w]]
  /\ notifyCalls' = [w \in Watches |->
        IF w \in S THEN notifyCalls[w] + 1 ELSE notifyCalls[w]]

\* run() that never short-circuits
ShouldShortCircuit_Never(w) == FALSE

\* run() that polls on the first run too
ShouldShortCircuit_NoFirstRunCheck(w) == ~consumerPollProducersForChange(w)

\* run(): if (this.trackingVersion !== 0 && !this.consumerPollProducersForChange()) return
ShouldShortCircuit(w) == trackingVersion[w] # 0 /\ ~consumerPollProducersForChange(w)

\* run() that does not start a new tracking version
NextTrackingVersion_Same(w) == trackingVersion[w]

\* run(): this.trackingVersion++
NextTrackingVersion(w) == trackingVersion[w] + 1

\* run() that does not invoke the pending cleanup
CleanupInvokedByRun_Noop(w) == NOOP_CLEANUP_FN

\* run(): this.cleanupFn()
CleanupInvokedByRun(w) == cleanupFn[w]

\* run() that resets the register to null instead of restoring it
RestoredConsumer_Null(f) == setActiveConsumer(NoConsumer)

\* run(): finally { setActiveConsumer(prevConsumer) }
RestoredConsumer(f) == setActiveConsumer(f.prevConsumer)

Frame(w, pc, ran) ==
  [w |-> w, pc |-> pc,
   prevConsumer |-> activeConsumer,   \* const prevConsumer = setActiveConsumer(this)
   atCall |-> activeConsumer,         \* the register when the call was made
   pending |-> cleanupFn[w],          \* the cleanup pending when the call was made
   changed |-> changedSinceRead[w] # {}, \* a producer it read had changed
   ran |-> ran,                       \* the watch function was invoked in this run
   innerThrew |-> FALSE]              \* a run() this function called threw

\* ------------------------------------------- ComponentNgElementStrategy
\* null, for componentRef, viewChangeDetectorRef and scheduledDestroyFn
Null == 0
\* componentFactory.inputs, in the factory's order
InputsSeq == <<"a", "b">>
Inputs == {InputsSeq[i] : i \in DOMAIN InputsSeq}
Undefined == "undefined"
InputValues == {Undefined, "v1", "v2"}
\* Map.has(property) is false
NotCached == "absent"
\* the values the component class gives its input properties
DefaultInstanceValue == [p \in Inputs |-> IF p = "a" THEN "v1" ELSE Undefined]
\* no SimpleChange recorded for an input
NoChange ==
  [pending |-> FALSE, previousValue |-> Undefined, currentValue |-> Undefined,
   firstChange |-> FALSE]
\* inputChanges === null (an inputChanges object always holds a change)
NoChanges == [p \in Inputs |-> NoChange]

\* utils: strictEquals(value1, value2)
strictEquals(value1, value2) == value1 = value2

\* the part of the strategy's state setInputValue() and detectChanges() work on
StrategyState ==
  [instance |-> instance, inputChanges |-> inputChanges,
   unchangedInputs |-> unchangedInputs, hasInputChanges |-> hasInputChanges,
   implementsOnChanges |-> implementsOnChanges,
   scheduledChangeDetectionFn |-> scheduledChangeDetectionFn,
   renderCallbacks |-> renderCallbacks, detectChangesRuns |-> detectChangesRuns,
   lastNgOnChanges |-> lastNgOnChanges]

\* getInputValue(property)
getInputValue(property) ==
  IF componentRef = Null
  THEN IF initialInputValues[property] = NotCached
       THEN Undefined
       ELSE initialInputValues[property]
  ELSE instance[property]

\* recordInputChange(property, currentValue): the inputChanges that result
recordInputChange(st, property, currentValue) ==
  IF ~st.implementsOnChanges
  THEN st.inputChanges
  ELSE IF st.inputChanges[property].pending
       THEN [st.inputChanges EXCEPT ![property].currentValue = currentValue]
       ELSE [st.inputChanges EXCEPT ![property] =
               [pending |-> TRUE,
                previousValue |-> IF property \in st.unchangedInputs
                                  THEN Undefined ELSE st.instance[property],
                currentValue |-> currentValue,
                firstChange |-> property \in st.unchangedInputs]]

\* scheduleDetectChanges() without the check: every call schedules a callback
scheduleDetectChanges_Unguarded(st) ==
  [st EXCEPT !.scheduledChangeDetectionFn = TRUE, !.renderCallbacks = @ + 1]

\* scheduleDetectChanges(): if (this.scheduledChangeDetectionFn) return; else
\* one more callback waits for the next render
scheduleDetectChanges(st) ==
  IF st.scheduledChangeDetectionFn
  THEN st
  ELSE [st EXCEPT !.scheduledChangeDetectionFn = TRUE, !.renderCallbacks = @ + 1]

\* setInputValue() that ignores every value equal to the current one
IgnoresValue_NoFirstChange(st, property, value) ==
  strictEquals(value, st.instance[property])

\* setInputValue(): the value is strictly equal to the current one, and is not
\* an undefined that is the input's first change
IgnoresValue(st, property, value) ==
  /\ strictEquals(value, st.instance[property])
  /\ ~(value = Undefined /\ property \in st.unchangedInputs)

\* setInputValue(property, value) on a strategy whose component exists
setOnComponent(st, property, value) ==
  IF IgnoresValue(st, property, value)
  THEN st
  ELSE scheduleDetectChanges(
         [st EXCEPT !.inputChanges = recordInputChange(st, property, value),
                    !.unchangedInputs = @ \ {property},
                    !.hasInputChanges = TRUE,
                    !.instance = [@ EXCEPT ![property] = value]])

\* initializeInputs() that drops the cached values without setting them
initializeInputs_Skip(st, i) == st

\* initializeInputs(): the forEach over componentFactory.inputs from index i on
RECURSIVE initializeInputs(_, _)
initializeInputs(st, i) ==
  IF i > Len(InputsSeq)
  THEN st
  ELSE initializeInputs(
         IF initialInputValues[InputsSeq[i]] # NotCached
         THEN setOnComponent(st, InputsSeq[i], initialInputValues[InputsSeq[i]])
         ELSE st,
         i + 1)

\* detectChanges() on an existing component: callNgOnChanges(), markViewForCheck(),
\* changeDetectorRef.detectChanges()
detectChanges(st) ==
  LET called == st.implementsOnChanges /\ st.inputChanges # NoChanges
  IN [st EXCEPT !.inputChanges = IF called THEN NoChanges ELSE @,
                !.lastNgOnChanges = IF called THEN st.inputChanges ELSE @,
                !.hasInputChanges = FALSE,
                !.detectChangesRuns = @ + 1]

\* the strategy's fields take the values of st
Becomes(st) ==
  /\ instance' = st.instance
  /\ inputChanges' = st.inputChanges
  /\ unchangedInputs' = st.unchangedInputs
  /\ hasInputChanges' = st.hasInputChanges
  /\ implementsOnChanges' = st.implementsOnChanges
  /\ scheduledChangeDetectionFn' = st.scheduledChangeDetectionFn
  /\ renderCallbacks' = st.renderCallbacks
  /\ detectChangesRuns' = st.detectChangesRuns
  /\ lastNgOnChanges' = st.lastNgOnChanges

strategyStateVars ==
  <<instance, inputChanges, unchangedInputs, hasInputChanges, implementsOnChanges,
    scheduledChangeDetectionFn, renderCallbacks, detectChangesRuns, lastNgOnChanges>>

InitElement ==
  /\ componentRef = Null
  /\ viewChangeDetectorRef = Null
  /\ inputChanges = NoChanges
  /\ hasInputChanges = FALSE
  /\ implementsOnChanges = FALSE
  /\ scheduledChangeDetectionFn = FALSE
  /\ scheduledDestroyFn = Null
  /\ initialInputValues = [p \in Inputs |-> NotCached]
  /\ unchangedInputs = Inputs
  /\ instance = DefaultInstanceValue
  /\ timers = {}
  /\ renderCallbacks = 0
  /\ created = 0
  /\ destroyed = {}
  /\ timersScheduled = 0
  /\ setCalls = 0
  /\ detectChangesRuns = 0
  /\ lastNgOnChanges = NoChanges

\* initializeComponent(element): a new component of a class that has ngOnChanges
\* or not, its cached inputs set, its first change detection run
initializeComponent(onChanges) ==
  /\ created < MaxComponents
  /\ created' = created + 1
  /\ componentRef' = created + 1
  /\ viewChangeDetectorRef' = created + 1
  /\ Becomes(detectChanges(initializeInputs(
        [StrategyState EXCEPT !.instance = DefaultInstanceValue,
                              !.implementsOnChanges = onChanges], 1)))
  /\ initialInputValues' = [p \in Inputs |-> NotCached]
  /\ UNCHANGED <<scheduledDestroyFn, timers, destroyed, timersScheduled, setCalls>>

\* the scheduled destruction is cancelled: this.scheduledDestroyFn()
CancelledTimers == timers \ {scheduledDestroyFn}

\* connect(element)
connect ==
  /\ UNCHANGED notElementVars
  /\ IF scheduledDestroyFn # Null
     THEN /\ timers' = CancelledTimers
          /\ scheduledDestroyFn' = Null
          /\ UNCHANGED <<componentRef, viewChangeDetectorRef, strategyStateVars,
                         initialInputValues, created, destroyed, timersScheduled,
                         setCalls>>
     ELSE IF componentRef = Null
          THEN \E onChanges \in BOOLEAN : initializeComponent(onChanges)
          ELSE UNCHANGED elementVars

\* disconnect() that schedules a destruction although one is scheduled
disconnect_Unguarded ==
  /\ UNCHANGED notElementVars
  /\ IF componentRef = Null
     THEN UNCHANGED elementVars
     ELSE /\ timersScheduled < MaxTimers
          /\ timersScheduled' = timersScheduled + 1
          /\ timers' = timers \cup {timersScheduled + 1}
          /\ scheduledDestroyFn' = timersScheduled + 1
          /\ UNCHANGED <<componentRef, viewChangeDetectorRef, strategyStateVars,
                         initialInputValues, created, destroyed, setCalls>>

\* disconnect()
disconnect ==
  /\ UNCHANGED notElementVars
  /\ IF componentRef = Null \/ scheduledDestroyFn # Null
     THEN UNCHANGED elementVars
     ELSE /\ timersScheduled < MaxTimers
          /\ timersScheduled' = timersScheduled + 1
          /\ timers' = timers \cup {timersScheduled + 1}
          /\ scheduledDestroyFn' = timersScheduled + 1
          /\ UNCHANGED <<componentRef, viewChangeDetectorRef, strategyStateVars,
                         initialInputValues, created, destroyed, setCalls>>

\* DESTROY_DELAY has elapsed for timer t: the callback given to scheduler.schedule
DestroyTimerFires(t) ==
  /\ UNCHANGED notElementVars
  /\ t \in timers
  /\ timers' = timers \ {t}
  /\ IF componentRef # Null
     THEN /\ destroyed' = destroyed \cup {componentRef}
          /\ componentRef' = Null
          /\ viewChangeDetectorRef' = Null
     ELSE UNCHANGED <<destroyed, componentRef, viewChangeDetectorRef>>
  /\ UNCHANGED <<strategyStateVars, scheduledDestroyFn, initialInputValues, created,
                 timersScheduled, setCalls>>

\* setInputValue(property, value)
setInputValue(property, value) ==
  /\ UNCHANGED notElementVars
  /\ setCalls < MaxSets
  /\ setCalls' = setCalls + 1
  /\ IF componentRef = Null
     THEN /\ initialInputValues' = [initialInputValues EXCEPT ![property] = value]
          /\ UNCHANGED strategyStateVars
     ELSE /\ Becomes(setOnComponent(StrategyState, property, value))
          /\ UNCHANGED initialInputValues
  /\ UNCHANGED <<componentRef, viewChangeDetectorRef, scheduledDestroyFn, timers,
                 created, destroyed, timersScheduled>>

\* the callback given to scheduler.scheduleBeforeRender runs
ChangeDetectionFires ==
  /\ UNCHANGED notElementVars
  /\ renderCallbacks > 0
  /\ Becomes(LET st == [StrategyState EXCEPT !.scheduledChangeDetectionFn = FALSE,
                                             !.renderCallbacks = @ - 1]
             IN IF componentRef = Null THEN st ELSE detectChanges(st))
  /\ UNCHANGED <<componentRef, viewChangeDetectorRef, scheduledDestroyFn,
                 initialInputValues, timers, created, destroyed, timersScheduled,
                 setCalls>>

NextElement ==
  \/ connect
  \/ disconnect
  \/ \E t \in 1..MaxTimers : DestroyTimerFires(t)
  \/ \E property \in Inputs, value \in InputValues : setInputValue(property, value)
  \/ ChangeDetectionFires

\* ---------------------------------------------------------- RouterOutlet
\* the ActivatedRoute objects the router passes
Routes == {"r1", "r2"}
NoRoute == "null"
NotActivatedError == "Outlet is not activated"
AlreadyActivatedError == "Cannot activate an already activated outlet"

\* a call that returned nothing, a ComponentRef or instance, or a route
Returns(ref, route) == [thrown |-> "none", ref |-> ref, route |-> route]
\* a call that threw new Error(message)
Throws(message) == [thrown |-> message, ref |-> Null, route |-> NoRoute]

\* EventEmitter.emit(instance) on the emitter of that name
Emit(name, inst) == Append(events, [name |-> name, instance |-> inst])

\* isActivated that always answers false
isActivated_Never == FALSE

\* get isActivated(): !!this.activated
isActivated == activated # Null

InitOutlet ==
  /\ activated = Null
  /\ activatedRouteField = NoRoute
  /\ location = <<>>
  /\ events = <<>>
  /\ registeredOutlet = TRUE
  /\ detachedRefs = {}
  /\ outletCreated = 0
  /\ outletDestroyed = {}
  /\ result = Returns(Null, NoRoute)

\* the body of activateWith(activatedRoute, resolver)
ActivateWithBody(activatedRoute) ==
  IF isActivated
  THEN /\ result' = Throws(AlreadyActivatedError)
       /\ UNCHANGED <<activated, activatedRouteField, location, events, detachedRefs,
                      outletCreated, outletDestroyed>>
  ELSE /\ outletCreated < MaxOutletComponents
       /\ Len(events) < MaxEvents
       /\ activatedRouteField' = activatedRoute
       /\ outletCreated' = outletCreated + 1
       /\ activated' = outletCreated + 1
       /\ location' = Append(location, outletCreated + 1)
       /\ events' = Emit("activate", outletCreated + 1)
       /\ result' = Returns(Null, NoRoute)
       /\ UNCHANGED <<detachedRefs, outletDestroyed>>

\* the body of attach(ref, activatedRoute)
AttachBody(ref, activatedRoute) ==
  /\ Len(events) < MaxEvents
  /\ activated' = ref
  /\ activatedRouteField' = activatedRoute
  /\ location' = Append(location, ref)
  /\ events' = Emit("attach", ref)
  /\ detachedRefs' = detachedRefs \ {ref}
  /\ result' = Returns(Null, NoRoute)
  /\ UNCHANGED <<outletCreated, outletDestroyed>>

\* activateWith(activatedRoute, resolver)
activateWith(activatedRoute) ==
  /\ UNCHANGED notOutletVars
  /\ ActivateWithBody(activatedRoute)
  /\ UNCHANGED registeredOutlet

\* attach(ref, activatedRoute), with a ComponentRef an earlier detach() returned
attach(ref, activatedRoute) ==
  /\ UNCHANGED notOutletVars
  /\ ref \in detachedRefs
  /\ AttachBody(ref, activatedRoute)
  /\ UNCHANGED registeredOutlet

\* ngOnInit(), parentContexts having no context with a route for the outlet
\* (route = NoRoute), a route to create (attachRef = Null) or a component to mount
ngOnInit(route, attachRef) ==
  /\ UNCHANGED notOutletVars
  /\ attachRef # Null => (route # NoRoute /\ attachRef \in detachedRefs)
  /\ IF activated = Null /\ route # NoRoute
     THEN IF attachRef # Null
          THEN AttachBody(attachRef, route)
          ELSE ActivateWithBody(route)
     ELSE /\ result' = Returns(Null, NoRoute)
          /\ UNCHANGED <<activated, activatedRouteField, location, events, detachedRefs,
                         outletCreated, outletDestroyed>>
  /\ UNCHANGED registeredOutlet

\* ngOnDestroy(): parentContexts.onChildOutletDestroyed(this.name)
ngOnDestroy ==
  /\ UNCHANGED notOutletVars
  /\ registeredOutlet' = FALSE
  /\ result' = Returns(Null, NoRoute)
  /\ UNCHANGED <<activated, activatedRouteField, location, events, detachedRefs,
                 outletCreated, outletDestroyed>>

\* get component()
component ==
  /\ UNCHANGED notOutletVars
  /\ result' = IF activated = Null THEN Throws(NotActivatedError)
               ELSE Returns(activated, NoRoute)
  /\ UNCHANGED <<activated, activatedRouteField, location, events, registeredOutlet,
                 detachedRefs, outletCreated, outletDestroyed>>

\* get activatedRoute()
activatedRoute ==
  /\ UNCHANGED notOutletVars
  /\ result' = IF activated = Null THEN Throws(NotActivatedError)
               ELSE Returns(Null, activatedRouteField)
  /\ UNCHANGED <<activated, activatedRouteField, location, events, registeredOutlet,
                 detachedRefs, outletCreated, outletDestroyed>>

\* detach() that does not test whether the outlet is activated
detach_Unchecked ==
  /\ UNCHANGED notOutletVars
  /\ Len(events) < MaxEvents
  /\ location' = SubSeq(location, 1, Len(location) - 1)
  /\ activated' = Null
  /\ activatedRouteField' = NoRoute
  /\ events' = Emit("detach", activated)
  /\ detachedRefs' = detachedRefs \cup ({activated} \ {Null})
  /\ result' = Returns(activated, NoRoute)
  /\ UNCHANGED <<registeredOutlet, outletCreated, outletDestroyed>>

\* detach() that destroys the component it returns
detach_Destroying ==
  /\ UNCHANGED notOutletVars
  /\ IF activated = Null
     THEN /\ result' = Throws(NotActivatedError)
          /\ UNCHANGED <<activated, activatedRouteField, location, events, detachedRefs,
                         outletDestroyed>>
     ELSE /\ Len(events) < MaxEvents
          /\ location' = SubSeq(location, 1, Len(location) - 1)
          /\ outletDestroyed' = outletDestroyed \cup {activated}
          /\ activated' = Null
          /\ activatedRouteField' = NoRoute
          /\ events' = Emit("detach", activated)
          /\ detachedRefs' = detachedRefs \cup {activated}
          /\ result' = Returns(activated, NoRoute)
  /\ UNCHANGED <<registeredOutlet, outletCreated>>

\* detach()
detach ==
  /\ UNCHANGED notOutletVars
  /\ IF activated = Null
     THEN /\ result' = Throws(NotActivatedError)
          /\ UNCHANGED <<activated, activatedRouteField, location, events, detachedRefs>>
     ELSE /\ Len(events) < MaxEvents
          /\ location' = SubSeq(location, 1, Len(location) - 1)
          /\ activated' = Null
          /\ activatedRouteField' = NoRoute
          /\ events' = Emit("detach", activated)
          /\ detachedRefs' = detachedRefs \cup {activated}
          /\ result' = Returns(activated, NoRoute)
  /\ UNCHANGED <<registeredOutlet, outletCreated, outletDestroyed>>

\* deactivate() that takes the component out without destroying it
deactivate_Detaching ==
  /\ UNCHANGED notOutletVars
  /\ IF activated # Null
     THEN /\ Len(events) < MaxEvents
          /\ location' = SelectSeq(location, LAMBDA c : c # activated)
          /\ activated' = Null
          /\ activatedRouteField' = NoRoute
          /\ events' = Emit("deactivate", activated)
          /\ UNCHANGED outletDestroyed
     ELSE UNCHANGED <<activated, activatedRouteField, location, events, outletDestroyed>>
  /\ result' = Returns(Null, NoRoute)
  /\ UNCHANGED <<registeredOutlet, detachedRefs, outletCreated>>

\* deactivate(); ComponentRef.destroy() takes the host view out of its container
deactivate ==
  /\ UNCHANGED notOutletVars
  /\ IF activated # Null
     THEN /\ Len(events) < MaxEvents
          /\ outletDestroyed' = outletDestroyed \cup {activated}
          /\ location' = SelectSeq(location, LAMBDA c : c # activated)
          /\ activated' = Null
          /\ activatedRouteField' = NoRoute
          /\ events' = Emit("deactivate", activated)
     ELSE UNCHANGED <<activated, activatedRouteField, location, events, outletDestroyed>>
  /\ result' = Returns(Null, NoRoute)
  /\ UNCHANGED <<registeredOutlet, detachedRefs, outletCreated>>

NextOutlet ==
  \/ \E r \in Routes : activateWith(r)
  \/ \E ref \in 1..MaxOutletComponents, r \in Routes : attach(ref, r)
  \/ \E r \in Routes \cup {NoRoute}, ref \in 0..MaxOutletComponents : ngOnInit(r, ref)
  \/ ngOnDestroy
  \/ component
  \/ activatedRoute
  \/ detach
  \/ deactivate

\* ------------------------------------------------------- RouterInitializer
\* values of ExtraOptions.initialNavigation; true and false are the legacy
\* spellings, "bogus" stands for any value the initializer does not know
InitialNavigationOptions ==
  {"enabled", "disabled", "legacy_enabled", "legacy_disabled", "true", "false",
   "undefined", "bogus"}
NotRead == "notRead"
Navigations == 1..MaxNavigations
NoNavigation == 0

isLegacyEnabled(o) == o \in {"legacy_enabled", "true", "undefined"}
isLegacyDisabled(o) == o \in {"legacy_disabled", "false"}

\* the afterPreactivation hook that hands out the initializer's Subject on
\* every call
HookReturns_AlwaysSubject(init) == "resultOfPreactivationDone"

\* what the hook appInitializer() installs returns, given this.initNavigation
HookReturns(init) == IF ~init THEN "resultOfPreactivationDone" ELSE "of(null)"

\* the navigations in flight: a new navigation cancels them
InFlight == {"running", "paused", "activating"}
FirstFree == IF \E n \in Navigations : navs[n] = "none"
             THEN CHOOSE n \in Navigations : navs[n] = "none" /\ \A m \in 1..(n - 1) : navs[m] # "none"
             ELSE NoNavigation

\* the router starts a navigation
Navigate(nv) ==
  [n \in Navigations |-> IF n = FirstFree THEN "running"
                         ELSE IF nv[n] \in InFlight THEN "cancelled" ELSE nv[n]]

\* router.initialNavigation(): navigates unless a navigation was already made
initialNavigation(nv) == IF nv[1] = "none" THEN Navigate(nv) ELSE nv

\* Subject.next() then Subject.complete(): what waits on the subject goes on
Released(nv) == [n \in Navigations |-> IF nv[n] = "paused" THEN "activating" ELSE nv[n]]

InitInitializer ==
  /\ opts = NotRead
  /\ initNavigation = FALSE
  /\ resultOfPreactivationDone = [emitted |-> 0, completed |-> FALSE]
  /\ appInitializerPromise = "notCalled"
  /\ afterPreactivationHook = "default"
  /\ navs = [n \in Navigations |-> "none"]
  /\ hookResults = << >>
  /\ rootBootstrapped = FALSE
  /\ routerSetUp = {}
  /\ bootstrapListenerCalls = 0

\* appInitializer() up to p.then(...): the callback waits for LOCATION_INITIALIZED
appInitializer ==
  /\ appInitializerPromise = "notCalled"
  /\ appInitializerPromise' = "waitingLocation"
  /\ UNCHANGED <<opts, initNavigation, resultOfPreactivationDone, afterPreactivationHook,
                 navs, hookResults, rootBootstrapped, routerSetUp, bootstrapListenerCalls>>
  /\ UNCHANGED notInitializerVars

\* the callback of p.then() in appInitializer(), with the configured option o
LocationInitialized(o) ==
  /\ appInitializerPromise = "waitingLocation"
  /\ opts' = o
  /\ IF isLegacyDisabled(o) \/ isLegacyEnabled(o)
     THEN /\ appInitializerPromise' = "resolved"
          /\ UNCHANGED <<afterPreactivationHook, navs, routerSetUp>>
     ELSE IF o = "disabled"
     THEN /\ routerSetUp' = routerSetUp \cup {"locationChangeListener"}
          /\ appInitializerPromise' = "resolved"
          /\ UNCHANGED <<afterPreactivationHook, navs>>
     ELSE IF o = "enabled"
     THEN /\ afterPreactivationHook' = "initializer"
          /\ navs' = initialNavigation(navs)
          /\ routerSetUp' = routerSetUp \cup {"locationChangeListener"}
          /\ appInitializerPromise' = "pending"
     ELSE /\ appInitializerPromise' = "rejected"
          /\ UNCHANGED <<afterPreactivationHook, navs, routerSetUp>>
  /\ UNCHANGED <<initNavigation, resultOfPreactivationDone, hookResults, rootBootstrapped,
                 bootstrapListenerCalls>>
  /\ UNCHANGED notInitializerVars

\* the hook that never resolves the promise of appInitializer()
afterPreactivation_NoResolve(n) ==
  /\ navs[n] = "running"
  /\ IF afterPreactivationHook = "initializer"
     THEN /\ hookResults' = Append(hookResults, [nav |-> n, returned |-> HookReturns(initNavigation)])
          /\ initNavigation' = TRUE
          /\ UNCHANGED appInitializerPromise
          /\ navs' = [navs EXCEPT ![n] = IF HookReturns(initNavigation) = "of(null)"
                                         THEN "activating" ELSE "paused"]
     ELSE /\ navs' = [navs EXCEPT ![n] = "activating"]
          /\ UNCHANGED <<hookResults, initNavigation, appInitializerPromise>>
  /\ UNCHANGED <<opts, resultOfPreactivationDone, afterPreactivationHook, rootBootstrapped,
                 routerSetUp, bootstrapListenerCalls>>
  /\ UNCHANGED notInitializerVars

\* navigation n finished its preactivation: the router calls
\* hooks.afterPreactivation and goes on when the returned observable emits
afterPreactivation(n) ==
  /\ navs[n] = "running"
  /\ IF afterPreactivationHook = "initializer"
     THEN /\ hookResults' = Append(hookResults, [nav |-> n, returned |-> HookReturns(initNavigation)])
          /\ initNavigation' = TRUE
          /\ appInitializerPromise' = IF ~initNavigation /\ appInitializerPromise = "pending"
                                      THEN "resolved" ELSE appInitializerPromise
          /\ navs' = [navs EXCEPT ![n] = IF HookReturns(initNavigation) = "of(null)"
                                         THEN "activating" ELSE "paused"]
     ELSE /\ navs' = [navs EXCEPT ![n] = "activating"]
          /\ UNCHANGED <<hookResults, initNavigation, appInitializerPromise>>
  /\ UNCHANGED <<opts, resultOfPreactivationDone, afterPreactivationHook, rootBootstrapped,
                 routerSetUp, bootstrapListenerCalls>>
  /\ UNCHANGED notInitializerVars

\* bootstrapListener(bootstrappedComponentRef); the application bootstraps its
\* components once every APP_INITIALIZER promise has resolved, the root first
bootstrapListener(isRoot) ==
  /\ appInitializerPromise = "resolved"
  /\ bootstrapListenerCalls < MaxBootstraps
  /\ bootstrapListenerCalls' = bootstrapListenerCalls + 1
  /\ isRoot <=> ~rootBootstrapped
  /\ IF ~isRoot
     THEN UNCHANGED <<navs, routerSetUp, resultOfPreactivationDone, rootBootstrapped>>
     ELSE /\ rootBootstrapped' = TRUE
          /\ navs' = Released(IF isLegacyEnabled(opts) THEN initialNavigation(navs) ELSE navs)
          /\ routerSetUp' = routerSetUp
                              \cup (IF isLegacyEnabled(opts) \/ isLegacyDisabled(opts)
                                    THEN {"locationChangeListener"} ELSE {})
                              \cup {"preloading", "scroller", "rootComponentType"}
          /\ resultOfPreactivationDone' =
               [emitted |-> resultOfPreactivationDone.emitted + 1, completed |-> TRUE]
  /\ UNCHANGED <<opts, initNavigation, appInitializerPromise, afterPreactivationHook, hookResults>>
  /\ UNCHANGED notInitializerVars

\* the application navigates (router.navigateByUrl)
StartNavigation ==
  /\ appInitializerPromise \notin {"notCalled", "waitingLocation"}
  /\ FirstFree # NoNavigation
  /\ navs' = Navigate(navs)
  /\ UNCHANGED <<opts, initNavigation, resultOfPreactivationDone, appInitializerPromise,
                 afterPreactivationHook, hookResults, rootBootstrapped, routerSetUp,
                 bootstrapListenerCalls>>
  /\ UNCHANGED notInitializerVars

\* navigation n activates its routes and ends
NavigationEnd(n) ==
  /\ navs[n] = "activating"
  /\ navs' = [navs EXCEPT ![n] = "complete"]
  /\ UNCHANGED <<opts, initNavigation, resultOfPreactivationDone, appInitializerPromise,
                 afterPreactivationHook, hookResults, rootBootstrapped, routerSetUp,
                 bootstrapListenerCalls>>
  /\ UNCHANGED notInitializerVars

NextInitializer ==
  \/ appInitializer
  \/ \E o \in InitialNavigationOptions : LocationInitialized(o)
  \/ \E n \in Navigations : afterPreactivation(n)
  \/ \E isRoot \in BOOLEAN : bootstrapListener(isRoot)
  \/ StartNavigation
  \/ \E n \in Navigations : NavigationEnd(n)

\* ----------------------------------------------------- DefaultValueAccessor
NotInjected == "null"
On == "true"
Off == "false"
TextValues == {"a", "b"}
EmptyText == ""

\* Len(domEvents) once the next event is recorded stays within the bound
CanRecord == compositionMode # NotInjected /\ Len(domEvents) < MaxAccessorEvents

\* the user is between a compositionstart and the compositionend that follows
InComposition ==
  \E i \in DOMAIN domEvents :
    /\ domEvents[i] = "compositionstart"
    /\ \A j \in (i + 1)..Len(domEvents) : domEvents[j] # "compositionend"

\* an accessor that forwards every input event
InputCallsOnChange_Always(mode, comp) == TRUE

\* the condition of _handleInput()
InputCallsOnChange(mode, comp) == mode # On \/ (mode = On /\ ~comp)

InitAccessor ==
  /\ composing = FALSE
  /\ compositionMode = NotInjected
  /\ elementValue = EmptyText
  /\ domEvents = << >>
  /\ onChangeCalls = << >>

\* the constructor: injected is the COMPOSITION_BUFFER_MODE value or null,
\* android what _isAndroid() finds in the user agent
DefaultValueAccessor(injected, android) ==
  /\ compositionMode = NotInjected
  /\ compositionMode' = IF injected = NotInjected
                        THEN (IF android THEN Off ELSE On) ELSE injected
  /\ UNCHANGED <<composing, elementValue, domEvents, onChangeCalls>>
  /\ UNCHANGED notAccessorVars

\* writeValue(value); value is null or a text
writeValue(value) ==
  /\ compositionMode # NotInjected
  /\ elementValue # (IF value = NotInjected THEN EmptyText ELSE value)
  /\ elementValue' = IF value = NotInjected THEN EmptyText ELSE value
  /\ UNCHANGED <<composing, compositionMode, domEvents, onChangeCalls>>
  /\ UNCHANGED notAccessorVars

\* (input): _handleInput($event.target.value)
handleInput(value) ==
  /\ CanRecord
  /\ domEvents' = Append(domEvents, "input")
  /\ elementValue' = value
  /\ onChangeCalls' = IF InputCallsOnChange(compositionMode, composing)
                      THEN Append(onChangeCalls, value) ELSE onChangeCalls
  /\ UNCHANGED <<composing, compositionMode>>
  /\ UNCHANGED notAccessorVars

\* (compositionstart): _compositionStart()
compositionStart ==
  /\ CanRecord
  /\ domEvents' = Append(domEvents, "compositionstart")
  /\ composing' = TRUE
  /\ UNCHANGED <<compositionMode, elementValue, onChangeCalls>>
  /\ UNCHANGED notAccessorVars

\* (compositionend): _compositionEnd($event.target.value)
compositionEnd(value) ==
  /\ CanRecord
  /\ domEvents' = Append(domEvents, "compositionend")
  /\ elementValue' = value
  /\ composing' = FALSE
  /\ onChangeCalls' = IF compositionMode = On
                      THEN Append(onChangeCalls, value) ELSE onChangeCalls
  /\ UNCHANGED compositionMode
  /\ UNCHANGED notAccessorVars

NextAccessor ==
  \/ \E injected \in {NotInjected, On, Off}, android \in BOOLEAN :
       DefaultValueAccessor(injected, android)
  \/ \E v \in TextValues \cup {NotInjected} : writeValue(v)
  \/ \E v \in TextValues : handleInput(v)
  \/ compositionStart
  \/ \E v \in TextValues : compositionEnd(v)

Init ==
  /\ InitElement
  /\ InitOutlet
  /\ InitInitializer
  /\ InitAccessor
  /\ dirty = [w \in Watches |-> InitialDirty]
  /\ trackingVersion = [w \in Watches |-> 0]
  /\ cleanupFn = [w \in Watches |-> NOOP_CLEANUP_FN]
  /\ activeConsumer = NoConsumer
  /\ valueVersion = [p \in Producers |-> 0]
  /\ producers = [w \in Watches |-> <<>>]
  /\ stack = <<>>
  /\ scheduleCalls = [w \in Watches |-> 0]
  /\ notifyCalls = [w \in Watches |-> 0]
  /\ watchCalls = [w \in Watches |-> 0]
  /\ cleanupCalls = [w \in Watches |-> 0]
  /\ registered = 0
  /\ outcome = [w \in Watches |-> "none"]
  /\ written = [w \in Watches |-> {}]
  /\ readNow = [w \in Watches |-> {}]
  /\ readPrev = [w \in Watches |-> {}]
  /\ changedSinceRead = [w \in Watches |-> {}]

\* w.notify() called by user code (a scheduler, a test, a producer stand-in)
Notify(w) ==
  /\ InBusyCode
  /\ w \notin Plain
  /\ notifyCalls[w] < MaxNotify
  /\ NotifyAll({w})
  /\ UNCHANGED <<trackingVersion, cleanupFn, graphVars, stack, watchCalls,
                 cleanupCalls, registered, outcome, written, readObs>>
  /\ UNCHANGED notWatchVars

\* user code changes producer p: the write-time hook bumps the version and
\* notifies every live consumer (onConsumerDependencyMayHaveChanged = notify)
Write(p) ==
  /\ InBusyCode
  /\ valueVersion[p] < MaxVersion
  /\ \A w \in LiveConsumers(p) : notifyCalls[w] < MaxNotify
  /\ valueVersion' = [valueVersion EXCEPT ![p] = @ + 1]
  /\ NotifyAll(LiveConsumers(p))
  /\ written' = [w \in Watches |->
        IF outcome[w] = "none" \/ w \in Plain THEN {} ELSE written[w] \cup {p}]
  /\ changedSinceRead' = [w \in Watches |->
        IF p \in readNow[w] THEN changedSinceRead[w] \cup {p} ELSE changedSinceRead[w]]
  /\ UNCHANGED <<trackingVersion, cleanupFn, activeConsumer, producers, stack,
                 watchCalls, cleanupCalls, registered, outcome, readNow, readPrev>>
  /\ UNCHANGED notWatchVars

\* the executing user function reads producer p
Read(p) ==
  /\ stack # <<>>
  /\ Top.w \notin Plain
  /\ IF activeConsumer = NoConsumer
     THEN UNCHANGED <<producers, readObs>>
     ELSE /\ producers' = [producers EXCEPT ![activeConsumer] = producerAccessed(activeConsumer, p)]
          /\ readNow' = [readNow EXCEPT ![activeConsumer] = @ \cup {p}]
          /\ changedSinceRead' = [changedSinceRead EXCEPT ![activeConsumer] = @ \ {p}]
          /\ UNCHANGED readPrev
  /\ UNCHANGED <<watchVars, activeConsumer, valueVersion, stack, notifyObs,
                 watchCalls, cleanupCalls, registered, outcome, written>>
  /\ UNCHANGED notWatchVars

\* the executing watch function calls registerOnCleanup(fn)
RegisterCleanup ==
  /\ stack # <<>>
  /\ Top.w \notin Plain
  /\ Top.pc = "watch"
  /\ registered < MaxCleanups
  /\ registered' = registered + 1
  /\ cleanupFn' = [cleanupFn EXCEPT ![Top.w] = UserCleanupFn]
  /\ cleanupCalls' = [cleanupCalls EXCEPT ![Top.w] = 0]
  /\ UNCHANGED <<dirty, trackingVersion, graphVars, stack, notifyObs, watchCalls,
                 outcome, written, readObs>>
  /\ UNCHANGED notWatchVars

\* w.run() up to the first user function it invokes
Run(w) ==
  /\ CanCall
  /\ ~OnStack(w)
  /\ notifyCalls' = [notifyCalls EXCEPT ![w] = 0]
  /\ scheduleCalls' = [scheduleCalls EXCEPT ![w] = 0]
  /\ written' = [written EXCEPT ![w] = {}]
  /\ dirty' = [dirty EXCEPT ![w] = FALSE]
  /\ IF ShouldShortCircuit(w)
     THEN /\ outcome' = [outcome EXCEPT ![w] = "skipped"]
          /\ stack' = Returned(stack, "skipped")
          /\ UNCHANGED <<trackingVersion, cleanupFn, graphVars, watchCalls,
                         cleanupCalls, readObs>>
     ELSE /\ trackingVersion[w] < MaxTracking
          /\ outcome' = [outcome EXCEPT ![w] = "running"]
          /\ activeConsumer' = setActiveConsumer(w)
          /\ trackingVersion' = [trackingVersion EXCEPT ![w] = NextTrackingVersion(w)]
          /\ producers' = [producers EXCEPT ![w] = EdgesAt(w, NextTrackingVersion(w))]
          /\ readPrev' = [readPrev EXCEPT ![w] = readNow[w]]
          /\ readNow' = [readNow EXCEPT ![w] = {}]
          /\ changedSinceRead' = [changedSinceRead EXCEPT ![w] = {}]
          /\ IF CleanupInvokedByRun(w) = NOOP_CLEANUP_FN
             THEN /\ cleanupFn' = [cleanupFn EXCEPT ![w] = NOOP_CLEANUP_FN]
                  /\ watchCalls' = [watchCalls EXCEPT ![w] = @ + 1]
                  /\ stack' = Append(stack, Frame(w, "watch", TRUE))
                  /\ UNCHANGED cleanupCalls
             ELSE /\ cleanupCalls' = [cleanupCalls EXCEPT ![w] = @ + 1]
                  /\ stack' = Append(stack, Frame(w, "cleanupFn", FALSE))
                  /\ UNCHANGED <<cleanupFn, watchCalls>>
          /\ UNCHANGED valueVersion
  /\ UNCHANGED registered
  /\ UNCHANGED notWatchVars

\* run(): the pending cleanup function returned; this.cleanupFn = NOOP_CLEANUP_FN;
\* this.watch(this.registerOnCleanup)
RunCleanupReturns ==
  /\ stack # <<>>
  /\ Top.pc = "cleanupFn"
  /\ cleanupFn' = [cleanupFn EXCEPT ![Top.w] = NOOP_CLEANUP_FN]
  /\ watchCalls' = [watchCalls EXCEPT ![Top.w] = @ + 1]
  /\ cleanupCalls' = [cleanupCalls EXCEPT ![Top.w] = 0]
  /\ stack' = [stack EXCEPT ![Len(stack)] = [@ EXCEPT !.pc = "watch", !.ran = TRUE]]
  /\ UNCHANGED <<dirty, trackingVersion, graphVars, notifyObs, registered,
                 outcome, written, readObs>>
  /\ UNCHANGED notWatchVars

\* run(): the user function it invoked is over (it returned, or it threw and the
\* exception leaves run()); finally { setActiveConsumer(prevConsumer) }
RunExit(op) ==
  /\ activeConsumer' = RestoredConsumer(Top)
  /\ stack' = Returned(Pop, op)
  /\ outcome' = [outcome EXCEPT ![Top.w] = op]
  /\ UNCHANGED <<watchVars, valueVersion, producers, notifyObs, watchCalls,
                 cleanupCalls, registered, written, readObs>>
  /\ UNCHANGED notWatchVars

\* the pending cleanup function throws inside run()
RunCleanupThrows ==
  /\ stack # <<>>
  /\ Top.pc = "cleanupFn"
  /\ RunExit("cleanupThrew")

\* the watch function returns
RunWatchReturns ==
  /\ stack # <<>>
  /\ Top.pc = "watch"
  /\ RunExit("returned")

\* run() that catches what the watch function throws and returns normally
RunWatchThrows_Swallowed ==
  /\ stack # <<>>
  /\ Top.pc = "watch"
  /\ RunExit("returned")

\* the watch function throws
RunWatchThrows ==
  /\ stack # <<>>
  /\ Top.pc = "watch"
  /\ RunExit("watchThrew")

\* cleanup() that also marks the watch for a run, as notify() does
Cleanup_Notifies(w) ==
  /\ InBusyCode
  /\ w \notin Plain
  /\ IF cleanupFn[w] = NOOP_CLEANUP_FN
     THEN UNCHANGED cleanupCalls
     ELSE /\ cleanupCalls[w] < MaxCleanupCalls
          /\ cleanupCalls' = [cleanupCalls EXCEPT ![w] = @ + 1]
  /\ notifyCalls[w] < MaxNotify
  /\ NotifyAll({w})
  /\ UNCHANGED <<trackingVersion, cleanupFn, graphVars, stack, watchCalls, registered,
                 outcome, written, readObs>>
  /\ UNCHANGED notWatchVars

\* w.cleanup(): this.cleanupFn(); the cleanup function returns or throws, and
\* what it reads it reads as the caller's code does (a Read step)
Cleanup(w) ==
  /\ InBusyCode
  /\ w \notin Plain
  /\ IF cleanupFn[w] = NOOP_CLEANUP_FN
     THEN UNCHANGED cleanupCalls
     ELSE /\ cleanupCalls[w] < MaxCleanupCalls
          /\ cleanupCalls' = [cleanupCalls EXCEPT ![w] = @ + 1]
  /\ UNCHANGED <<watchVars, graphVars, stack, notifyObs, watchCalls, registered,
                 outcome, written, readObs>>
  /\ UNCHANGED notWatchVars

Next ==
  \/ \E w \in Watches : Notify(w)
  \/ \E p \in Producers : Write(p)
  \/ \E p \in Producers : Read(p)
  \/ RegisterCleanup
  \/ \E w \in Watches : Run(w)
  \/ RunCleanupReturns
  \/ RunCleanupThrows
  \/ RunWatchReturns
  \/ RunWatchThrows
  \/ \E w \in Watches : Cleanup(w)

Spec == Init /\ [][Next]_vars

\* ------------------------------------ Watch with a synchronous scheduler
\* (specification SpecSync): the schedule callback is w => w.run(), so run()
\* executes inside notify().  A call is one step here; the watch function is
\* what it reads and whether it returns or throws, and registers no cleanup.
FunctionOutcomes == {"returned", "watchThrew"}

\* the elements of S in some fixed order
SeqOf(S) ==
  CHOOSE s \in [1..Cardinality(S) -> S] : \A x \in S : \E i \in 1..Cardinality(S) : s[i] = x

\* consumerPollProducersForChange() when the producers have the versions vv
PollWith(w, vv) ==
  \E i \in DOMAIN producers[w] :
     /\ IsLive(w, producers[w][i])
     /\ vv[producers[w][i].producerNode] # producers[w][i].seenValueVersion

\* run() from its call to its exit, the watch function reading `reads` and
\* ending as `how`: what the run leaves in the watch
RunAtOnce(w, vv, reads, how) ==
  IF trackingVersion[w] # 0 /\ ~PollWith(w, vv)
  THEN [trackingVersion |-> trackingVersion[w], producers |-> producers[w],
        watchCalls |-> watchCalls[w], readNow |-> readNow[w], outcome |-> "skipped"]
  ELSE [trackingVersion |-> NextTrackingVersion(w),
        producers |-> [i \in 1..Cardinality(reads) |->
                         [producerNode |-> SeqOf(reads)[i],
                          seenValueVersion |-> vv[SeqOf(reads)[i]],
                          atTrackingVersion |-> NextTrackingVersion(w)]],
        watchCalls |-> watchCalls[w] + 1, readNow |-> reads, outcome |-> how]

\* the watch takes the values of r and the flag d
SyncBecomes(w, r, d) ==
  /\ r.trackingVersion <= MaxTracking
  /\ trackingVersion' = [trackingVersion EXCEPT ![w] = r.trackingVersion]
  /\ producers' = [producers EXCEPT ![w] = r.producers]
  /\ watchCalls' = [watchCalls EXCEPT ![w] = r.watchCalls]
  /\ readNow' = [readNow EXCEPT ![w] = r.readNow]
  /\ outcome' = [outcome EXCEPT ![w] = r.outcome]
  /\ dirty' = [dirty EXCEPT ![w] = d]

syncFrame == <<cleanupFn, activeConsumer, stack, cleanupCalls, registered, written,
               readPrev, changedSinceRead>>

\* notify() whose schedule callback runs the watch: if (!this.dirty)
\* this.schedule(this) -> run(); this.dirty = true, unless the run threw
NotifyWithSyncScheduler(w, vv, reads, how) ==
  /\ notifyCalls[w] < MaxNotify
  /\ notifyCalls' = [notifyCalls EXCEPT ![w] = @ + 1]
  /\ IF NotifySchedules(w)
     THEN /\ scheduleCalls' = [scheduleCalls EXCEPT ![w] = @ + 1]
          /\ SyncBecomes(w, RunAtOnce(w, vv, reads, how),
                         IF RunAtOnce(w, vv, reads, how).outcome = "watchThrew"
                         THEN FALSE ELSE DirtyAfterNotify(w))
     ELSE /\ dirty' = [dirty EXCEPT ![w] = DirtyAfterNotify(w)]
          /\ UNCHANGED <<scheduleCalls, trackingVersion, producers, watchCalls,
                         readNow, outcome>>

\* w.notify() at top level
NotifySync(w, reads, how) ==
  /\ NotifyWithSyncScheduler(w, valueVersion, reads, how)
  /\ UNCHANGED <<valueVersion, syncFrame>>
  /\ UNCHANGED notWatchVars

\* producer p changes at top level and notifies w if w is a live consumer
WriteSync(p, w, reads, how) ==
  /\ valueVersion[p] < MaxVersion
  /\ LiveConsumers(p) \subseteq {w}
  /\ valueVersion' = [valueVersion EXCEPT ![p] = @ + 1]
  /\ IF w \in LiveConsumers(p)
     THEN NotifyWithSyncScheduler(w, [valueVersion EXCEPT ![p] = @ + 1], reads, how)
     ELSE UNCHANGED <<dirty, trackingVersion, producers, watchCalls, readNow, outcome,
                      notifyCalls, scheduleCalls>>
  /\ UNCHANGED syncFrame
  /\ UNCHANGED notWatchVars

\* w.run() called at top level
RunSync(w, reads, how) ==
  /\ SyncBecomes(w, RunAtOnce(w, valueVersion, reads, how), FALSE)
  /\ UNCHANGED <<valueVersion, notifyCalls, scheduleCalls, syncFrame>>
  /\ UNCHANGED notWatchVars

NextSync ==
  \/ \E w \in Watches \ Plain, reads \in SUBSET Producers, how \in FunctionOutcomes :
       NotifySync(w, reads, how)
  \/ \E p \in Producers, w \in Watches \ Plain, reads \in SUBSET Producers,
        how \in FunctionOutcomes : WriteSync(p, w, reads, how)
  \/ \E w \in Watches \ Plain, reads \in SUBSET Producers, how \in FunctionOutcomes :
       RunSync(w, reads, how)

SpecSync == Init /\ [][NextSync]_vars

SpecElement == Init /\ [][NextElement]_vars

SpecOutlet == Init /\ [][NextOutlet]_vars

SpecInitializer == Init /\ [][NextInitializer]_vars

SpecAccessor == Init /\ [][NextAccessor]_vars

\* ------------------------------------------------------------ type invariant
TypeOK ==
  /\ dirty \in [Watches -> BOOLEAN]
  /\ trackingVersion \in [Watches -> 0..MaxTracking]
  /\ cleanupFn \in [Watches -> {NOOP_CLEANUP_FN, UserCleanupFn}]
  /\ activeConsumer \in Watches \cup {NoConsumer}
  /\ valueVersion \in [Producers -> 0..MaxVersion]
  /\ Len(stack) <= Cardinality(Watches)
  /\ registered \in 0..MaxCleanups
  /\ componentRef \in 0..MaxComponents
  /\ scheduledDestroyFn \in 0..MaxTimers
  /\ initialInputValues \in [Inputs -> InputValues \cup {NotCached}]
  /\ instance \in [Inputs -> InputValues]
  /\ unchangedInputs \subseteq Inputs
  /\ activated \in 0..MaxOutletComponents
  /\ activatedRouteField \in Routes \cup {NoRoute}
  /\ Len(events) <= MaxEvents

\* ------------------------------------------------------------------ claims
FrameOf(w) == stack[CHOOSE i \in DOMAIN stack : stack[i].w = w]

\* C1: between two run() calls of a watch (and before the first), schedule has
\* been invoked exactly once if notify() was called at all, however often, and
\* not at all otherwise; schedule is invoked exactly in the steps that take the
\* watch from clean to dirty, never by a notify() on a dirty watch.
C1_NotifySchedulesOncePerDirtyPeriod ==
  /\ [](\A w \in Watches : scheduleCalls[w] = IF notifyCalls[w] >= 1 THEN 1 ELSE 0)
  /\ [][\A w \in Watches :
          /\ (scheduleCalls'[w] > scheduleCalls[w]) <=> (~dirty[w] /\ dirty'[w])
          /\ (notifyCalls'[w] > notifyCalls[w] /\ dirty[w]) =>
                scheduleCalls'[w] = scheduleCalls[w]]_vars

\* two notify() calls on a clean watch with no run() in between, one schedule
C1_Witness ==
  \E w \in Watches : notifyCalls[w] >= 2 /\ scheduleCalls[w] = 1 /\ outcome[w] = "returned"

\* C2: a run() on a watch whose function has been executed before and whose
\* producers poll as unchanged invokes neither the watch function nor a cleanup
\* function, starts no execution and leaves the watch clean.
C2_NoRedundantExecution ==
  [][\A w \in Watches :
       (Run(w) /\ watchCalls[w] >= 1 /\ ~consumerPollProducersForChange(w)) =>
          /\ watchCalls' = watchCalls
          /\ cleanupCalls' = cleanupCalls
          /\ cleanupFn' = cleanupFn
          /\ Len(stack') = Len(stack)
          /\ ~dirty'[w]]_vars

\* a run() that short-circuited on a watch that had read a producer
C2_Witness ==
  \E w \in Watches :
     outcome[w] = "skipped" /\ watchCalls[w] >= 1 /\ readNow[w] # {} /\ ~dirty[w]

\* C3: the first run() of a watch invokes its watch function, whatever was
\* notified or written before.
C3_FirstRunExecutes ==
  [][\A w \in Watches :
       (Run(w) /\ outcome[w] = "none") => watchCalls'[w] = watchCalls[w] + 1]_vars

\* the first run() of a watch executing with no notify() before it, after a write
C3_Witness ==
  \E w \in Watches, p \in Producers :
     /\ outcome[w] = "running" /\ watchCalls[w] = 1 /\ trackingVersion[w] = 1
     /\ valueVersion[p] > 0 /\ notifyCalls[w] = 0

\* C4: when the watch function or the pending cleanup function throws inside
\* run(), the active consumer once run() has exited is the one of the moment
\* run() was called, at top level and inside another watch's function.
C4_ExceptionSafety ==
  [][(RunWatchThrows \/ RunCleanupThrows) => activeConsumer' = Top.atCall]_vars

\* a run() called inside another watch's function threw, and that watch is the
\* active consumer again
C4_Witness ==
  /\ stack # <<>>
  /\ Top.innerThrew
  /\ activeConsumer = Top.w

C6_DependencyPruning ==
  [][\A w \in Watches, p \in Producers :
       Write(p) =>
          IF p \in readNow[w]
          THEN /\ notifyCalls'[w] = notifyCalls[w] + 1
               /\ dirty'[w]
               /\ ~dirty[w] => scheduleCalls'[w] = scheduleCalls[w] + 1
          ELSE /\ notifyCalls'[w] = notifyCalls[w]
               /\ scheduleCalls'[w] = scheduleCalls[w]
               /\ dirty'[w] = dirty[w]]_vars

\* w read p in the executed run before its latest and not in the latest, which
\* has returned; p alone was written since that run began, and w was neither
\* notified nor scheduled
C6_Witness ==
  \E w \in Watches, p \in Producers :
     /\ p \in readPrev[w] \ readNow[w]
     /\ readNow[w] # {}
     /\ outcome[w] = "returned"
     /\ written[w] = {p}
     /\ notifyCalls[w] = 0 /\ scheduleCalls[w] = 0 /\ ~dirty[w]

\* C7: if notify() was called since the watch's latest run() began, also while
\* its function was executing, then schedule was invoked since then and the
\* watch is dirty, and stays so when that run() returns.
C7_NoNotificationLost ==
  \A w \in Watches : notifyCalls[w] >= 1 => (scheduleCalls[w] >= 1 /\ dirty[w])

\* a notify() arrived while the watch function was executing
C7_Witness ==
  \E w \in Watches : outcome[w] = "running" /\ notifyCalls[w] >= 1 /\ dirty[w]

\* C8 (amended): a freshly constructed watch is clean: before its first run()
\* its dirty flag is true exactly if notify() was called, and the first such
\* notify() invokes schedule.
C8_FreshWatchIsClean ==
  \A w \in Watches :
     outcome[w] = "none" =>
        /\ dirty[w] <=> notifyCalls[w] >= 1
        /\ scheduleCalls[w] = IF notifyCalls[w] >= 1 THEN 1 ELSE 0

\* C8 as stated: before its first run() a watch is dirty and notify() does not
\* invoke schedule.
C8_Original ==
  \A w \in Watches : outcome[w] = "none" => (dirty[w] /\ scheduleCalls[w] = 0)

\* notify() on a watch that never ran invoked schedule
C8_Witness ==
  \E w \in Watches : outcome[w] = "none" /\ notifyCalls[w] >= 1 /\ scheduleCalls[w] = 1

\* C9: the watch function starts only with no cleanup pending or right after
\* this run() invoked the pending cleanup function, which is then cleared; a
\* run() that short-circuits neither invokes nor discards the pending cleanup.
C9_CleanupBeforeNextExecution ==
  [][\A w \in Watches :
       /\ watchCalls'[w] > watchCalls[w] =>
             /\ cleanupFn'[w] = NOOP_CLEANUP_FN
             /\ cleanupFn[w] # NOOP_CLEANUP_FN =>
                   (OnStack(w) /\ FrameOf(w).pc = "cleanupFn" /\ cleanupCalls[w] >= 1)
       /\ (Run(w) /\ outcome'[w] = "skipped") =>
             (cleanupFn'[w] = cleanupFn[w] /\ cleanupCalls'[w] = cleanupCalls[w])]_vars

\* the watch function executes in a run() that began with a cleanup pending
C9_Witness ==
  \E w \in Watches :
     OnStack(w) /\ FrameOf(w).pending = UserCleanupFn /\ FrameOf(w).pc = "watch"

\* C10: cleanup() invokes the pending cleanup function and nothing else: the
\* watch function and schedule are not invoked, the dirty flag, the tracking
\* version, the active consumer and the calls in progress stay as they are.
C10_CleanupRunsNothing ==
  [][\A w \in Watches :
       Cleanup(w) =>
          /\ watchCalls' = watchCalls
          /\ scheduleCalls' = scheduleCalls
          /\ dirty' = dirty
          /\ trackingVersion' = trackingVersion
          /\ activeConsumer' = activeConsumer
          /\ stack' = stack
          /\ cleanupFn[w] # NOOP_CLEANUP_FN => cleanupCalls'[w] = cleanupCalls[w] + 1]_vars

\* cleanup() invoked the pending cleanup inside the watch's own function, with
\* the watch dirty and still the active consumer
C10_Witness ==
  \E w \in Watches :
     /\ cleanupFn[w] = UserCleanupFn /\ cleanupCalls[w] = 1
     /\ trackingVersion[w] = 1 /\ outcome[w] = "running"
     /\ activeConsumer = w /\ dirty[w]

\* C11: when the watch function throws, run() exits with that exception, which
\* reaches the caller (the calling function sees a run() that threw); that step
\* invokes neither schedule nor the watch function, and afterwards the watch
\* function is invoked only by a run() call; a notify() after the throw leaves
\* the watch dirty with schedule invoked once since that run() began: it
\* invokes schedule itself unless a notify() during the run already had.
C11_ThrowPropagatesAndNotifySchedules ==
  [][/\ RunWatchThrows =>
          /\ outcome'[Top.w] = "watchThrew"
          /\ Len(stack') = Len(stack) - 1
          /\ Len(stack) > 1 => stack'[Len(stack')].innerThrew
          /\ scheduleCalls' = scheduleCalls
          /\ watchCalls' = watchCalls
     /\ \A w \in Watches :
          /\ (outcome[w] = "watchThrew" /\ watchCalls'[w] # watchCalls[w]) => Run(w)
          /\ (outcome[w] = "watchThrew" /\ Notify(w)) =>
                /\ dirty'[w]
                /\ scheduleCalls'[w] = 1
                /\ ~dirty[w] => scheduleCalls'[w] = scheduleCalls[w] + 1]_vars

\* the latest run() of a watch threw from its function, no notify() reached the
\* watch more than once since it began, and schedule has been invoked
C11_Witness ==
  \E w \in Watches :
     /\ outcome[w] = "watchThrew" /\ stack = <<>>
     /\ notifyCalls[w] = 1 /\ scheduleCalls[w] = 1 /\ dirty[w]

\* C12: when the watch function throws, the watch is dirty as the exception
\* reaches the caller, so that it is not clean after a run() that failed.
C12_ThrowLeavesDirty ==
  [][RunWatchThrows => dirty'[Top.w]]_vars

\* the function of a watch threw and the watch is clean at top level
C12_Witness ==
  \E w \in Watches : outcome[w] = "watchThrew" /\ ~dirty[w] /\ stack = <<>>

\* C13: a run() on a watch whose previous run() returned, with no producer
\* written since that run began, leaves the recorded edges as they were: the
\* same producers in the same order with the same seen versions.
C13_EdgeRebuildIdempotence ==
  [][\A w \in Watches :
       (Run(w) /\ outcome[w] = "returned" /\ written[w] = {}) =>
          producers'[w] = producers[w]]_vars

\* run N read A then B and returned; run N+1, with nothing written, is over and
\* the edges are A then B at the versions read
C13_Witness ==
  \E w \in Watches :
     /\ outcome[w] = "skipped" /\ written[w] = {}
     /\ Len(producers[w]) = 2
     /\ producers[w][1].producerNode = "A" /\ producers[w][2].producerNode = "B"
     /\ \A i \in 1..2 : /\ IsLive(w, producers[w][i])
                         /\ producers[w][i].seenValueVersion =
                               valueVersion[producers[w][i].producerNode]

\* C14: when connect() returns, a component exists and no destruction is
\* pending, whatever connect(), disconnect() and timer firings came before.
C14_ConnectLeavesComponent ==
  [][connect => (componentRef' # Null /\ timers' = {} /\ scheduledDestroyFn' = Null)]_vars

\* a component was created and destroyed, and a connect() after that returned
\* without creating one: no component, nothing scheduled
C14_Witness ==
  /\ created >= 1 /\ destroyed # {}
  /\ componentRef = Null /\ scheduledDestroyFn = Null /\ timers = {}

\* C15: a connect() while a destruction is scheduled and has not run cancels
\* it and keeps the component, which is not destroyed; only the timer scheduled
\* last and not cancelled ever fires; at most one destruction is pending; and
\* disconnect() with no component or with a destruction scheduled changes
\* nothing.
C15_ReconnectKeepsComponent ==
  /\ [](Cardinality(timers) <= 1 /\ timers \subseteq {scheduledDestroyFn})
  /\ [][/\ (scheduledDestroyFn \in timers /\ connect) =>
             /\ timers' = {}
             /\ componentRef' = componentRef /\ componentRef # Null
             /\ destroyed' = destroyed
        /\ \A t \in 1..MaxTimers :
             (t \in timers /\ DestroyTimerFires(t)) => t = scheduledDestroyFn
        /\ ((componentRef = Null \/ scheduledDestroyFn # Null) /\ disconnect) =>
             UNCHANGED elementVars
        /\ destroyed' # destroyed => \E t \in timers : DestroyTimerFires(t)]_vars

\* a destruction was scheduled and cancelled by connect(): the first component
\* is still there, nothing was destroyed, nothing is pending
C15_Witness ==
  /\ timersScheduled >= 1 /\ timers = {} /\ scheduledDestroyFn = Null
  /\ componentRef = 1 /\ destroyed = {}

\* C16: setInputValue() before the component exists changes only the cache,
\* and getInputValue() then returns the value set; the connect() that creates
\* the component leaves every cached value in the instance's property, every
\* other property at the component's own value, and the cache empty, so that
\* getInputValue() still returns the cached values.
C16_CachedInputsApplied ==
  [][/\ \A property \in Inputs, value \in InputValues :
          (componentRef = Null /\ setInputValue(property, value)) =>
             /\ getInputValue(property)' = value
             /\ initialInputValues' = [initialInputValues EXCEPT ![property] = value]
             /\ UNCHANGED <<componentRef, strategyStateVars>>
     /\ (componentRef = Null /\ componentRef' # Null) =>
          /\ connect
          /\ \A property \in Inputs :
                /\ instance'[property] =
                      IF initialInputValues[property] # NotCached
                      THEN initialInputValues[property]
                      ELSE DefaultInstanceValue[property]
                /\ getInputValue(property)' = instance'[property]
                /\ initialInputValues'[property] = NotCached]_vars

\* the component was created with "v2" cached for input b: the value is in the
\* instance, it reached ngOnChanges in the first change detection as a first
\* change, and the cache is empty
C16_Witness ==
  /\ componentRef # Null /\ setCalls >= 1 /\ detectChangesRuns = 1
  /\ instance["b"] = "v2"
  /\ lastNgOnChanges["b"].pending /\ lastNgOnChanges["b"].currentValue = "v2"
  /\ lastNgOnChanges["b"].firstChange
  /\ initialInputValues = [p \in Inputs |-> NotCached]

\* C17: activateWith() on an activated outlet throws 'Cannot activate an
\* already activated outlet' and leaves the component, the route, the view
\* container and the emitted events as they were; nothing is created.
C17_ActivateActivatedThrows ==
  [][\A r \in Routes :
       (activated # Null /\ activateWith(r)) =>
          /\ result'.thrown = AlreadyActivatedError
          /\ UNCHANGED <<activated, activatedRouteField, events, location,
                         outletCreated, outletDestroyed>>]_vars

\* the latest call threw that error on an outlet holding its first component
C17_Witness ==
  /\ result.thrown = AlreadyActivatedError
  /\ activated = 1 /\ outletCreated = 1 /\ Len(events) = 1

C19_DetachAttachRoundTrip ==
  [][/\ (activated # Null /\ detach) =>
          /\ result' = Returns(activated, NoRoute)
          /\ outletDestroyed' = outletDestroyed /\ activated \notin outletDestroyed
          /\ activated' = Null /\ activatedRouteField' = NoRoute
          /\ events' = Append(events, [name |-> "detach", instance |-> activated])
     /\ \A ref \in 1..MaxOutletComponents, r \in Routes :
          attach(ref, r) =>
             /\ ref \notin outletDestroyed'
             /\ activated' = ref /\ activatedRouteField' = r
             /\ events' = Append(events, [name |-> "attach", instance |-> ref])]_vars

\* the first component was activated with a route, detached and attached again
\* with the same route: it is the activated component and was not destroyed
C19_Witness ==
  \E r \in Routes :
     /\ Len(events) = 3
     /\ events[1] = [name |-> "activate", instance |-> 1]
     /\ events[2] = [name |-> "detach", instance |-> 1]
     /\ events[3] = [name |-> "attach", instance |-> 1]
     /\ activated = 1 /\ activatedRouteField = r
     /\ outletDestroyed = {}

\* C20: deactivate() on an activated outlet destroys the component, leaves the
\* outlet not activated with no route and emits exactly one deactivate event
\* with the destroyed component's instance; on an outlet that is not activated
\* it changes nothing and emits nothing.
C20_DeactivateDestroys ==
  [][deactivate =>
        IF activated # Null
        THEN /\ outletDestroyed' = outletDestroyed \cup {activated}
             /\ activated' = Null /\ activatedRouteField' = NoRoute
             /\ events' = Append(events, [name |-> "deactivate", instance |-> activated])
        ELSE /\ UNCHANGED <<activated, activatedRouteField, events, location,
                            detachedRefs, outletCreated, outletDestroyed>>
             /\ result'.thrown = "none"]_vars

\* the first component was activated and deactivated: it is destroyed, the
\* outlet is empty and two events were emitted
C20_Witness ==
  /\ events = <<[name |-> "activate", instance |-> 1],
                [name |-> "deactivate", instance |-> 1]>>
  /\ outletDestroyed = {1} /\ activated = Null /\ activatedRouteField = NoRoute

\* C21: with initialNavigation 'enabled' only the first call of the
\* afterPreactivation hook returns the initializer's Subject, every later call
\* returns of(null), which has already completed; the Subject emits and
\* completes in bootstrapListener() for the root component and nowhere else, so
\* a navigation that waits on it is released only there.
C21_OnlyInitialNavigationDelayed ==
  /\ [](\A i \in DOMAIN hookResults :
          /\ opts = "enabled"
          /\ hookResults[i].returned =
               IF i = 1 THEN "resultOfPreactivationDone" ELSE "of(null)")
  /\ [](IF rootBootstrapped
        THEN resultOfPreactivationDone = [emitted |-> 1, completed |-> TRUE]
        ELSE resultOfPreactivationDone = [emitted |-> 0, completed |-> FALSE])
  /\ [](\A n \in Navigations : navs[n] = "paused" => ~rootBootstrapped)
  /\ [][\A n \in Navigations :
          (navs[n] = "paused" /\ navs'[n] = "activating") =>
             (~rootBootstrapped /\ rootBootstrapped')]_vars

\* the first navigation waited for the bootstrap and ended, the second one got
\* of(null) from the hook and went on at once
C21_Witness ==
  /\ Len(hookResults) = 2
  /\ hookResults[1].nav = 1 /\ navs[1] = "complete"
  /\ hookResults[2].nav = 2 /\ navs[2] = "activating"
  /\ rootBootstrapped

C23_CompositionBuffering ==
  [][\A v \in TextValues :
       /\ handleInput(v) =>
            onChangeCalls' = IF compositionMode = On /\ InComposition
                             THEN onChangeCalls ELSE Append(onChangeCalls, v)
       /\ compositionEnd(v) =>
            onChangeCalls' = IF compositionMode = On
                             THEN Append(onChangeCalls, v) ELSE onChangeCalls]_vars

\* a composition in buffer mode: the input event in it was held back and
\* compositionend delivered the final value
C23_Witness ==
  /\ compositionMode = On
  /\ domEvents = <<"compositionstart", "input", "compositionend">>
  /\ onChangeCalls = <<"b">>

C25_ActiveConsumerStackDiscipline ==
  /\ [](IF stack = << >> THEN activeConsumer = NoConsumer
        ELSE Top.pc = "watch" => activeConsumer = Top.w)
  /\ [][/\ (stack # << >> /\ Len(stack') < Len(stack)) => activeConsumer' = Top.atCall
        /\ \A w \in Watches :
             (ShouldShortCircuit(w) /\ Run(w)) => activeConsumer' = activeConsumer]_vars

\* a run() nested in the function of another watch has ended by throwing and
\* the outer function goes on as the active consumer
C25_Witness ==
  /\ Len(stack) = 1 /\ Top.pc = "watch" /\ Top.innerThrew
  /\ activeConsumer = Top.w
  /\ \E w \in Watches \ {Top.w} : outcome[w] = "watchThrew"

\* C26: the tracking version of a watch changes only in its run(), where it
\* grows by exactly 1 when the run does not short-circuit, whatever the user
\* functions do afterwards, and stays as it is when the run short-circuits;
\* notify() and cleanup() leave it alone.
C26_TrackingVersionMonotone ==
  [][\A w \in Watches :
       /\ trackingVersion'[w] \in {trackingVersion[w], trackingVersion[w] + 1}
       /\ trackingVersion'[w] # trackingVersion[w] =>
            (~ShouldShortCircuit(w) /\ Run(w) /\ ~Notify(w) /\ ~Cleanup(w))
       /\ Run(w) => trackingVersion'[w] = IF ShouldShortCircuit(w)
                                         THEN trackingVersion[w]
                                         ELSE trackingVersion[w] + 1]_vars

\* two executed runs, the second of which threw
C26_Witness ==
  \E w \in Watches : trackingVersion[w] = 2 /\ outcome[w] = "watchThrew" /\ watchCalls[w] >= 1

\* C30: a registered cleanup function is invoked at most once, whatever run()
\* and cleanup() calls are made
C30_CleanupInvokedAtMostOnce ==
  [](\A w \in Watches : cleanupCalls[w] <= 1)

\* the same registered cleanup function was invoked twice
C30_Witness ==
  \E w \in Watches : cleanupFn[w] = UserCleanupFn /\ cleanupCalls[w] = 2

\* C27: at most one change detection callback waits for the next render, and
\* one waits exactly while scheduledChangeDetectionFn is set; a setInputValue()
\* made while one waits schedules no other; the callback, when it runs, clears
\* the field and runs detectChanges() once (change detection runs once if the
\* component still exists); a change made while none waits schedules one.
C27_OneChangeDetectionPending ==
  /\ [](renderCallbacks = IF scheduledChangeDetectionFn THEN 1 ELSE 0)
  /\ [][/\ \A p \in Inputs, v \in InputValues :
             /\ (scheduledChangeDetectionFn /\ setInputValue(p, v)) =>
                   (renderCallbacks' = 1 /\ detectChangesRuns' = detectChangesRuns)
             /\ (~scheduledChangeDetectionFn /\ componentRef # Null /\ v # instance[p]
                   /\ setInputValue(p, v)) =>
                   (renderCallbacks' = 1 /\ scheduledChangeDetectionFn'
                      /\ detectChangesRuns' = detectChangesRuns)
        /\ (renderCallbacks > 0 /\ ChangeDetectionFires) =>
             /\ renderCallbacks' = 0 /\ ~scheduledChangeDetectionFn'
             /\ detectChangesRuns' =
                  IF componentRef = Null THEN detectChangesRuns ELSE detectChangesRuns + 1]_vars

\* three setInputValue() calls changed both inputs of the component and one
\* callback waits
C27_Witness ==
  /\ componentRef # Null /\ created = 1 /\ setCalls = 3
  /\ initialInputValues = [p \in Inputs |-> NotCached]
  /\ instance = [p \in Inputs |-> "v2"]
  /\ renderCallbacks = 1

\* C28: on a created component setInputValue(p, v) with v equal to the current
\* value of p changes nothing of the strategy and schedules nothing, unless v
\* is undefined and p is still among the unchanged inputs: then p leaves the
\* unchanged inputs, the change is recorded as a first change (when the
\* component implements OnChanges) and change detection is scheduled.
C28_EqualValueIgnored ==
  [][\A p \in Inputs, v \in InputValues :
       (componentRef # Null /\ v = instance[p] /\ setInputValue(p, v)) =>
          IF v = Undefined /\ p \in unchangedInputs
          THEN /\ p \notin unchangedInputs'
               /\ hasInputChanges'
               /\ scheduledChangeDetectionFn' /\ renderCallbacks' = 1
               /\ instance' = instance
               /\ implementsOnChanges =>
                    inputChanges'[p] = [pending |-> TRUE, previousValue |-> Undefined,
                                        currentValue |-> Undefined, firstChange |-> TRUE]
          ELSE UNCHANGED <<strategyStateVars, initialInputValues, componentRef,
                           viewChangeDetectorRef, scheduledDestroyFn, timers>>]_vars

\* an explicit undefined for an input that was undefined and had never changed
\* is waiting as a first change
C28_Witness ==
  /\ componentRef # Null /\ implementsOnChanges
  /\ \E p \in Inputs :
       /\ instance[p] = Undefined
       /\ inputChanges[p] = [pending |-> TRUE, previousValue |-> Undefined,
                             currentValue |-> Undefined, firstChange |-> TRUE]

\* C29: with a synchronous scheduler every notify() invokes schedule and, once
\* it has returned, leaves the watch clean, so that the notification of the
\* next producer change schedules again
C29_SyncSchedulerLeavesClean ==
  [][\A w \in Watches \ Plain :
       notifyCalls'[w] # notifyCalls[w] =>
          (~dirty'[w] /\ scheduleCalls'[w] = scheduleCalls[w] + 1)]_vars

\* the watch function ran inside the first notify() and returned, the watch
\* was left dirty, and the change of a producer it reads was notified without
\* a schedule: the watch has not seen the new value
C29_Witness ==
  \E w \in Watches \ Plain :
    /\ notifyCalls[w] = 2 /\ scheduleCalls[w] = 1 /\ watchCalls[w] = 1
    /\ outcome[w] = "returned" /\ dirty[w]
    /\ PollWith(w, valueVersion)

\* C31: a watch whose only executed run() threw executes its function again
\* on the next run(): that run() does not short-circuit
C31_RerunAfterFirstRunThrew ==
  [][\A w \in Watches :
       (trackingVersion[w] = 1 /\ outcome[w] = "watchThrew" /\ Run(w)) =>
          outcome'[w] # "skipped"]_vars

\* the first run() of the watch threw, no producer it read has changed since
\* and nobody notified it: the state in which the next run() is made
C31_Witness ==
  \E w \in Watches \ Plain :
    /\ trackingVersion[w] = 1 /\ outcome[w] = "watchThrew" /\ watchCalls[w] = 1
    /\ ~OnStack(w) /\ ~dirty[w] /\ ~consumerPollProducersForChange(w)

====
